---- MODULE Spec2Model ----
(***************************************************************************)
(* Software FIFO buffers (fifo.h / fifo.c): the uint8_t, uint16_t,         *)
(* uint32_t and common (caller-defined entry size) ring buffers.           *)
(*                                                                         *)
(* Memory is modelled at byte level.  A memory block is a sequence of      *)
(* bytes; the byte at offset a of block mem is mem[a + 1].  The storage    *)
(* block of a FIFO is the field buffer of its descriptor, and head_ptr,    *)
(* tail_ptr and limit_ptr are byte offsets from the start of that block    *)
(* (the address fifo->buffer is offset 0).  Multi-byte values are laid out *)
(* little-endian.  A read outside a block yields an arbitrary byte (junk), *)
(* a write outside a block does not reach the block, and both are recorded *)
(* in the flag oob.  A memcpy whose length is a negative difference cast   *)
(* to size_t does not return (crash): the program stops there.             *)
(***************************************************************************)
EXTENDS Integers, Sequences, FiniteSets, TLC

\* ---------------------------------------------------------------- bounds
\* largest capacity (in entries) a FIFO is created with
MaxSize == 3
\* number of distinct non-zero values the callers push
NumVals == 2
\* largest entry_size (in bytes) of a common FIFO
MaxEntrySize == 2
\* free_size is explored up to this value
MaxFree == 4

\* ------------------------------------------------------- program constants
\* sizeof(uint8_t), sizeof(uint16_t), sizeof(uint32_t)
SizeofU8 == 1
SizeofU16 == 2
SizeofU32 == 4
\* uint16_t arithmetic is modulo 2^16
U16 == 65536

Byte == 0..NumVals
Variants == {"uint8", "uint16", "uint32", "common"}

NULL == <<>>
Ptr(x) == <<x>>

\* ------------------------------------------------------------------ memory
Min(a, b) == IF a < b THEN a ELSE b
Max(a, b) == IF a < b THEN b ELSE a

\* the byte at offset a of block mem; junk outside the block
Rd(mem, a, junk) == IF a >= 0 /\ a < Len(mem) THEN mem[a + 1] ELSE junk

\* accesses of n bytes at offset a stay inside a block of len bytes
InBlock(len, a, n) == n <= 0 \/ (a >= 0 /\ a + n <= len)

\* memcpy(dst + d, src + s, n): bytes landing outside dst are not stored
memcpy(dst, d, src, s, n, junk) ==
  [i \in 1..Len(dst) |->
     IF i - 1 >= d /\ i - 1 < d + n THEN Rd(src, s + (i - 1 - d), junk)
     ELSE dst[i]]

\* memset(dst, c, n)
memset(dst, c, n) == [i \in 1..Len(dst) |-> IF i - 1 < n THEN c ELSE dst[i]]

\* mutant of ToBytes: only the low byte of the value is stored
ToBytes_low(val, size) == [i \in 1..size |-> IF i = 1 THEN val % 256 ELSE 0]

\* object representation of an unsigned value of size bytes (little-endian)
RECURSIVE ToBytes(_, _)
ToBytes(val, size) ==
  IF size = 0 THEN <<>> ELSE <<val % 256>> \o ToBytes(val \div 256, size - 1)

\* the value whose object representation is bytes
RECURSIVE FromBytes(_)
FromBytes(bytes) ==
  IF bytes = <<>> THEN 0 ELSE bytes[1] + 256 * FromBytes(Tail(bytes))

\* bytes [a, a + n) of a block
Slice(mem, a, n) == [i \in 1..n |-> mem[a + i]]

\* --------------------------------------------------------------- results
\* What a call leaves behind: its return code, the descriptor (with its
\* storage), the caller's destination block, whether it touched memory
\* outside the blocks it was given, and whether it failed to return.
Result(code, f, out, bad) ==
  [ret |-> code, fifo |-> f, out |-> out, oob |-> bad, crash |-> FALSE]

Crash(f, out) ==
  [ret |-> 0, fifo |-> f, out |-> out, oob |-> TRUE, crash |-> TRUE]

\* ------------------------------------------------------------ descriptors
\* fifo_uint8_TD, fifo_uint16_TD, fifo_uint32_TD, fifo_common_TD.  The typed
\* descriptors have no entry_size field; the model keeps sizeof(T) there and
\* the typed operations never read it.
\* mutant of Descriptor: limit_ptr points at the last entry, not past it
Descriptor_last(mem, limit, esize, size) ==
  [buffer |-> mem, head_ptr |-> 0, tail_ptr |-> 0, limit_ptr |-> limit - esize,
   entry_size |-> esize, max_size |-> size, free_size |-> size]

Descriptor(mem, limit, esize, size) ==
  [buffer |-> mem, head_ptr |-> 0, tail_ptr |-> 0, limit_ptr |-> limit,
   entry_size |-> esize, max_size |-> size, free_size |-> size]

\* mutant of wrap_ptr: the comparison is strict
wrap_ptr_strict(ptr, f) == IF ptr > f.limit_ptr THEN 0 ELSE ptr

\* if(fifo->head_ptr >= fifo->limit_ptr) fifo->head_ptr = fifo->buffer;
\* (the same statement closes every single-entry pop and push)
wrap_ptr(ptr, f) == IF ptr >= f.limit_ptr THEN 0 ELSE ptr

\* =========================================================== uint8_t FIFO
fifo_uint8_clear(fp) ==
  IF fp = NULL THEN Result(-1, fp, NULL, FALSE)
  ELSE LET f == fp[1] IN
    Result(0,
           Ptr([f EXCEPT !.buffer = memset(f.buffer, 0, f.max_size),
                         !.head_ptr = 0, !.tail_ptr = 0,
                         !.free_size = f.max_size]),
           NULL, ~InBlock(Len(f.buffer), 0, f.max_size))

fifo_uint8_pop(fp, val, junk) ==
  IF fp = NULL THEN Result(-1, fp, val, FALSE)
  ELSE IF val = NULL THEN Result(-2, fp, val, FALSE)
  ELSE LET f == fp[1] IN
    IF f.free_size = f.max_size THEN Result(-3, fp, val, FALSE)
    ELSE
      LET v    == memcpy(val[1], 0, f.buffer, f.head_ptr, SizeofU8, junk)
          head == f.head_ptr + SizeofU8
      IN Result(0,
                Ptr([f EXCEPT !.head_ptr = wrap_ptr(head, f),
                              !.free_size = (f.free_size + 1) % U16]),
                Ptr(v),
                ~InBlock(Len(f.buffer), f.head_ptr, SizeofU8))

\* mutant of uint8_pop_mul_too_many: a request for all that is stored is refused
uint8_pop_mul_too_many_all(f, m) == m >= f.max_size - f.free_size

\* mutant of uint8_pop_mul_too_many: the count is compared with the capacity
uint8_pop_mul_too_many_capacity(f, m) == m > f.max_size

\* if(m > (fifo->max_size - fifo->free_size)) return -4;
uint8_pop_mul_too_many(f, m) == m > f.max_size - f.free_size

fifo_uint8_pop_mul(fp, pop_buffer, m, junk) ==
  IF fp = NULL THEN Result(-1, fp, pop_buffer, FALSE)
  ELSE IF pop_buffer = NULL THEN Result(-2, fp, pop_buffer, FALSE)
  ELSE IF m = 0 THEN Result(-3, fp, pop_buffer, FALSE)
  ELSE LET f == fp[1] IN
    IF uint8_pop_mul_too_many(f, m) THEN Result(-4, fp, pop_buffer, FALSE)
    ELSE
      LET free  == (f.free_size + m) % U16
          limit == f.head_ptr + m
          wrap  == limit >= f.limit_ptr
          n1    == f.limit_ptr - f.head_ptr
          pb1   == IF wrap THEN memcpy(pop_buffer[1], 0, f.buffer, f.head_ptr, n1, junk)
                   ELSE pop_buffer[1]
          off   == IF wrap THEN n1 ELSE 0
          m2    == IF wrap THEN (m - n1) % U16 ELSE m
          head  == IF wrap THEN 0 ELSE f.head_ptr
          pb2   == memcpy(pb1, off, f.buffer, head, m2, junk)
      IN IF wrap /\ n1 < 0 THEN Crash(fp, pop_buffer)
         ELSE Result(0,
                Ptr([f EXCEPT !.head_ptr = head + m2, !.free_size = free]),
                Ptr(pb2),
                \/ wrap /\ ~InBlock(Len(f.buffer), f.head_ptr, n1)
                \/ wrap /\ ~InBlock(Len(pop_buffer[1]), 0, n1)
                \/ ~InBlock(Len(f.buffer), head, m2)
                \/ ~InBlock(Len(pop_buffer[1]), off, m2))

\* mutant of uint8_full: a sliding window, never full
uint8_full_never(f) == FALSE

\* if(fifo->free_size == 0) return -2;
uint8_full(f) == f.free_size = 0

fifo_uint8_push(fp, val) ==
  IF fp = NULL THEN Result(-1, fp, NULL, FALSE)
  ELSE LET f == fp[1] IN
    IF uint8_full(f) THEN Result(-2, fp, NULL, FALSE)
    ELSE
      LET tail == f.tail_ptr + SizeofU8 IN
      Result(0,
             Ptr([f EXCEPT !.buffer = memcpy(f.buffer, f.tail_ptr,
                                             ToBytes(val, SizeofU8), 0, SizeofU8, 0),
                           !.tail_ptr = wrap_ptr(tail, f),
                           !.free_size = (f.free_size - 1) % U16]),
             NULL,
             ~InBlock(Len(f.buffer), f.tail_ptr, SizeofU8))

\* mutant of uint8_push_mul_too_many: the count is compared with the capacity
uint8_push_mul_too_many_capacity(f, m) == m > f.max_size

\* if(m > fifo->free_size) return -4;
uint8_push_mul_too_many(f, m) == m > f.free_size

fifo_uint8_push_mul(fp, push_buffer, m, junk) ==
  IF fp = NULL THEN Result(-1, fp, NULL, FALSE)
  ELSE IF push_buffer = NULL THEN Result(-2, fp, NULL, FALSE)
  ELSE IF m = 0 THEN Result(-3, fp, NULL, FALSE)
  ELSE LET f == fp[1] IN
    IF uint8_push_mul_too_many(f, m) THEN Result(-4, fp, NULL, FALSE)
    ELSE
      LET free  == (f.free_size - m) % U16
          limit == f.tail_ptr + m
          wrap  == limit >= f.limit_ptr
          n1    == f.limit_ptr - f.tail_ptr
          b1    == IF wrap THEN memcpy(f.buffer, f.tail_ptr, push_buffer[1], 0, n1, junk)
                   ELSE f.buffer
          off   == IF wrap THEN n1 ELSE 0
          m2    == IF wrap THEN (m - n1) % U16 ELSE m
          tail  == IF wrap THEN 0 ELSE f.tail_ptr
          b2    == memcpy(b1, tail, push_buffer[1], off, m2, junk)
      IN IF wrap /\ n1 < 0 THEN Crash(fp, NULL)
         ELSE Result(0,
                Ptr([f EXCEPT !.buffer = b2, !.tail_ptr = tail + m2,
                              !.free_size = free]),
                NULL,
                \/ wrap /\ ~InBlock(Len(f.buffer), f.tail_ptr, n1)
                \/ wrap /\ ~InBlock(Len(push_buffer[1]), 0, n1)
                \/ ~InBlock(Len(f.buffer), tail, m2)
                \/ ~InBlock(Len(push_buffer[1]), off, m2))

fifo_uint8_init(fp, buffer, size, clear_flag) ==
  IF fp = NULL THEN Result(-1, fp, NULL, FALSE)
  ELSE IF buffer = NULL THEN Result(-2, fp, NULL, FALSE)
  ELSE IF size = 0 THEN Result(-3, fp, NULL, FALSE)
  ELSE
    Result(0,
           Ptr(Descriptor(IF clear_flag THEN memset(buffer[1], 0, size) ELSE buffer[1],
                          size, SizeofU8, size)),
           NULL,
           clear_flag /\ ~InBlock(Len(buffer[1]), 0, size))

\* ============================================ uint16_t and uint32_t FIFOs
\* fifo_uint16_* and fifo_uint32_* are the same text with sizeof(T) = 2 and 4.
\* Their pointers are T*: p + n moves n * sizeof(T) bytes and p - q counts
\* elements, while the lengths given to memset and memcpy are bytes.
typed_clear(fp, sz) ==
  IF fp = NULL THEN Result(-1, fp, NULL, FALSE)
  ELSE LET f == fp[1] IN
    Result(0,
           Ptr([f EXCEPT !.buffer = memset(f.buffer, 0, f.max_size),
                         !.head_ptr = 0, !.tail_ptr = 0,
                         !.free_size = f.max_size]),
           NULL, ~InBlock(Len(f.buffer), 0, f.max_size))

typed_pop(fp, val, junk, sz) ==
  IF fp = NULL THEN Result(-1, fp, val, FALSE)
  ELSE IF val = NULL THEN Result(-2, fp, val, FALSE)
  ELSE LET f == fp[1] IN
    IF f.free_size = f.max_size THEN Result(-3, fp, val, FALSE)
    ELSE
      LET v    == memcpy(val[1], 0, f.buffer, f.head_ptr, sz, junk)
          head == f.head_ptr + sz
      IN Result(0,
                Ptr([f EXCEPT !.head_ptr = wrap_ptr(head, f),
                              !.free_size = (f.free_size + 1) % U16]),
                Ptr(v),
                ~InBlock(Len(f.buffer), f.head_ptr, sz))

typed_pop_mul(fp, pop_buffer, m, junk, sz) ==
  IF fp = NULL THEN Result(-1, fp, pop_buffer, FALSE)
  ELSE IF pop_buffer = NULL THEN Result(-2, fp, pop_buffer, FALSE)
  ELSE IF m = 0 THEN Result(-3, fp, pop_buffer, FALSE)
  ELSE LET f == fp[1] IN
    IF m > f.max_size THEN Result(-4, fp, pop_buffer, FALSE)
    ELSE
      LET free  == (f.free_size + m) % U16
          limit == f.head_ptr + m * sz
          wrap  == limit >= f.limit_ptr
          diff  == (f.limit_ptr - f.head_ptr) \div sz
          pb1   == IF wrap THEN memcpy(pop_buffer[1], 0, f.buffer, f.head_ptr, diff, junk)
                   ELSE pop_buffer[1]
          off   == IF wrap THEN (diff \div sz) * sz ELSE 0
          m2    == IF wrap THEN (m - (diff \div sz)) % U16 ELSE m
          head  == IF wrap THEN 0 ELSE f.head_ptr
          pb2   == memcpy(pb1, off, f.buffer, head, m2 * sz, junk)
      IN IF wrap /\ diff < 0 THEN Crash(fp, pop_buffer)
         ELSE Result(0,
                Ptr([f EXCEPT !.head_ptr = head + m2 * sz, !.free_size = free]),
                Ptr(pb2),
                \/ wrap /\ ~InBlock(Len(f.buffer), f.head_ptr, diff)
                \/ wrap /\ ~InBlock(Len(pop_buffer[1]), 0, diff)
                \/ ~InBlock(Len(f.buffer), head, m2 * sz)
                \/ ~InBlock(Len(pop_buffer[1]), off, m2 * sz))

typed_push(fp, val, sz) ==
  IF fp = NULL THEN Result(-1, fp, NULL, FALSE)
  ELSE LET f == fp[1] IN
    IF f.free_size = 0 THEN Result(-2, fp, NULL, FALSE)
    ELSE
      LET tail == f.tail_ptr + sz IN
      Result(0,
             Ptr([f EXCEPT !.buffer = memcpy(f.buffer, f.tail_ptr,
                                             ToBytes(val, sz), 0, sz, 0),
                           !.tail_ptr = wrap_ptr(tail, f),
                           !.free_size = (f.free_size - 1) % U16]),
             NULL,
             ~InBlock(Len(f.buffer), f.tail_ptr, sz))

typed_push_mul(fp, push_buffer, m, junk, sz) ==
  IF fp = NULL THEN Result(-1, fp, NULL, FALSE)
  ELSE IF push_buffer = NULL THEN Result(-2, fp, NULL, FALSE)
  ELSE IF m = 0 THEN Result(-3, fp, NULL, FALSE)
  ELSE LET f == fp[1] IN
    IF m > f.free_size THEN Result(-4, fp, NULL, FALSE)
    ELSE
      LET free  == (f.free_size - m) % U16
          limit == f.tail_ptr + m * sz
          wrap  == limit >= f.limit_ptr
          diff  == (f.limit_ptr - f.tail_ptr) \div sz
          b1    == IF wrap THEN memcpy(f.buffer, f.tail_ptr, push_buffer[1], 0, diff, junk)
                   ELSE f.buffer
          off   == IF wrap THEN (diff \div sz) * sz ELSE 0
          m2    == IF wrap THEN (m - (diff \div sz)) % U16 ELSE m
          tail  == IF wrap THEN 0 ELSE f.tail_ptr
          b2    == memcpy(b1, tail, push_buffer[1], off, m2 * sz, junk)
      IN IF wrap /\ diff < 0 THEN Crash(fp, NULL)
         ELSE Result(0,
                Ptr([f EXCEPT !.buffer = b2, !.tail_ptr = tail + m2 * sz,
                              !.free_size = free]),
                NULL,
                \/ wrap /\ ~InBlock(Len(f.buffer), f.tail_ptr, diff)
                \/ wrap /\ ~InBlock(Len(push_buffer[1]), 0, diff)
                \/ ~InBlock(Len(f.buffer), tail, m2 * sz)
                \/ ~InBlock(Len(push_buffer[1]), off, m2 * sz))

typed_init(fp, buffer, size, clear_flag, sz) ==
  IF fp = NULL THEN Result(-1, fp, NULL, FALSE)
  ELSE IF buffer = NULL THEN Result(-2, fp, NULL, FALSE)
  ELSE IF size = 0 THEN Result(-3, fp, NULL, FALSE)
  ELSE
    Result(0,
           Ptr(Descriptor(IF clear_flag THEN memset(buffer[1], 0, size) ELSE buffer[1],
                          size * sz, sz, size)),
           NULL,
           clear_flag /\ ~InBlock(Len(buffer[1]), 0, size))

fifo_uint16_clear(fp) == typed_clear(fp, SizeofU16)
fifo_uint16_pop(fp, val, junk) == typed_pop(fp, val, junk, SizeofU16)
fifo_uint16_pop_mul(fp, pop_buffer, m, junk) ==
  typed_pop_mul(fp, pop_buffer, m, junk, SizeofU16)
fifo_uint16_push(fp, val) == typed_push(fp, val, SizeofU16)
fifo_uint16_push_mul(fp, push_buffer, m, junk) ==
  typed_push_mul(fp, push_buffer, m, junk, SizeofU16)
fifo_uint16_init(fp, buffer, size, clear_flag) ==
  typed_init(fp, buffer, size, clear_flag, SizeofU16)

fifo_uint32_clear(fp) == typed_clear(fp, SizeofU32)
fifo_uint32_pop(fp, val, junk) == typed_pop(fp, val, junk, SizeofU32)
fifo_uint32_pop_mul(fp, pop_buffer, m, junk) ==
  typed_pop_mul(fp, pop_buffer, m, junk, SizeofU32)
fifo_uint32_push(fp, val) == typed_push(fp, val, SizeofU32)
fifo_uint32_push_mul(fp, push_buffer, m, junk) ==
  typed_push_mul(fp, push_buffer, m, junk, SizeofU32)
fifo_uint32_init(fp, buffer, size, clear_flag) ==
  typed_init(fp, buffer, size, clear_flag, SizeofU32)

\* ============================================================ common FIFO
\* The pointers are void*, cast to uint8_t* for arithmetic: differences are
\* bytes.
fifo_common_clear(fp) ==
  IF fp = NULL THEN Result(-1, fp, NULL, FALSE)
  ELSE LET f == fp[1] IN
    Result(0,
           Ptr([f EXCEPT !.buffer = memset(f.buffer, 0, f.max_size * f.entry_size),
                         !.head_ptr = 0, !.tail_ptr = 0,
                         !.free_size = f.max_size]),
           NULL, ~InBlock(Len(f.buffer), 0, f.max_size * f.entry_size))

fifo_common_pop(fp, val_buffer, junk) ==
  IF fp = NULL THEN Result(-1, fp, val_buffer, FALSE)
  ELSE IF val_buffer = NULL THEN Result(-2, fp, val_buffer, FALSE)
  ELSE LET f == fp[1] IN
    IF f.free_size = f.max_size THEN Result(-3, fp, val_buffer, FALSE)
    ELSE
      LET v    == memcpy(val_buffer[1], 0, f.buffer, f.head_ptr, f.entry_size, junk)
          head == f.head_ptr + f.entry_size
      IN Result(0,
                Ptr([f EXCEPT !.head_ptr = wrap_ptr(head, f),
                              !.free_size = (f.free_size + 1) % U16]),
                Ptr(v),
                ~InBlock(Len(f.buffer), f.head_ptr, f.entry_size))

\* m -= ((uint8_t *)fifo->limit_ptr - (uint8_t *)fifo->head_ptr), m a uint16_t
common_pop_mul_rest(f, m) == (m - (f.limit_ptr - f.head_ptr)) % U16

fifo_common_pop_mul(fp, pop_buffer, m, junk) ==
  IF fp = NULL THEN Result(-1, fp, pop_buffer, FALSE)
  ELSE IF pop_buffer = NULL THEN Result(-2, fp, pop_buffer, FALSE)
  ELSE IF m = 0 THEN Result(-3, fp, pop_buffer, FALSE)
  ELSE LET f == fp[1] IN
    IF m > f.max_size THEN Result(-4, fp, pop_buffer, FALSE)
    ELSE
      LET free  == (f.free_size + m) % U16
          limit == f.head_ptr + m * f.entry_size
          wrap  == limit >= f.limit_ptr
          diff  == f.limit_ptr - f.head_ptr
          n1    == diff * f.entry_size
          pb1   == IF wrap THEN memcpy(pop_buffer[1], 0, f.buffer, f.head_ptr, n1, junk)
                   ELSE pop_buffer[1]
          off   == IF wrap THEN n1 ELSE 0
          m2    == IF wrap THEN common_pop_mul_rest(f, m) ELSE m
          head  == IF wrap THEN 0 ELSE f.head_ptr
          pb2   == memcpy(pb1, off, f.buffer, head, m2 * f.entry_size, junk)
      IN IF wrap /\ n1 < 0 THEN Crash(fp, pop_buffer)
         ELSE Result(0,
                Ptr([f EXCEPT !.head_ptr = head + m2 * f.entry_size,
                              !.free_size = free]),
                Ptr(pb2),
                \/ wrap /\ ~InBlock(Len(f.buffer), f.head_ptr, n1)
                \/ wrap /\ ~InBlock(Len(pop_buffer[1]), 0, n1)
                \/ ~InBlock(Len(f.buffer), head, m2 * f.entry_size)
                \/ ~InBlock(Len(pop_buffer[1]), off, m2 * f.entry_size))

fifo_common_push(fp, val_buffer) ==
  IF fp = NULL THEN Result(-1, fp, NULL, FALSE)
  ELSE IF val_buffer = NULL THEN Result(-2, fp, NULL, FALSE)
  ELSE LET f == fp[1] IN
    IF f.free_size = 0 THEN Result(-3, fp, NULL, FALSE)
    ELSE
      LET tail == f.tail_ptr + f.entry_size IN
      Result(0,
             Ptr([f EXCEPT !.buffer = memcpy(f.buffer, f.tail_ptr,
                                             val_buffer[1], 0, f.entry_size, 0),
                           !.tail_ptr = wrap_ptr(tail, f),
                           !.free_size = (f.free_size - 1) % U16]),
             NULL,
             \/ ~InBlock(Len(f.buffer), f.tail_ptr, f.entry_size)
             \/ ~InBlock(Len(val_buffer[1]), 0, f.entry_size))

fifo_common_push_mul(fp, push_buffer, m, junk) ==
  IF fp = NULL THEN Result(-1, fp, NULL, FALSE)
  ELSE IF push_buffer = NULL THEN Result(-2, fp, NULL, FALSE)
  ELSE IF m = 0 THEN Result(-3, fp, NULL, FALSE)
  ELSE LET f == fp[1] IN
    IF m > f.free_size THEN Result(-4, fp, NULL, FALSE)
    ELSE
      LET free  == (f.free_size - m) % U16
          limit == f.tail_ptr + m * f.entry_size
          wrap  == limit >= f.limit_ptr
          diff  == f.limit_ptr - f.tail_ptr
          n1    == diff * f.entry_size
          b1    == IF wrap THEN memcpy(f.buffer, f.tail_ptr, push_buffer[1], 0, n1, junk)
                   ELSE f.buffer
          off   == IF wrap THEN n1 ELSE 0
          m2    == IF wrap THEN (m - (diff \div f.entry_size)) % U16 ELSE m
          tail  == IF wrap THEN 0 ELSE f.tail_ptr
          b2    == memcpy(b1, tail, push_buffer[1], off, m2 * f.entry_size, junk)
      IN IF wrap /\ n1 < 0 THEN Crash(fp, NULL)
         ELSE Result(0,
                Ptr([f EXCEPT !.buffer = b2, !.tail_ptr = tail + m2 * f.entry_size,
                              !.free_size = free]),
                NULL,
                \/ wrap /\ ~InBlock(Len(f.buffer), f.tail_ptr, n1)
                \/ wrap /\ ~InBlock(Len(push_buffer[1]), 0, n1)
                \/ ~InBlock(Len(f.buffer), tail, m2 * f.entry_size)
                \/ ~InBlock(Len(push_buffer[1]), off, m2 * f.entry_size))

fifo_common_init(fp, buffer, size, entry_size, clear_flag) ==
  IF fp = NULL THEN Result(-1, fp, NULL, FALSE)
  ELSE IF buffer = NULL THEN Result(-2, fp, NULL, FALSE)
  ELSE IF size = 0 THEN Result(-3, fp, NULL, FALSE)
  ELSE IF entry_size = 0 THEN Result(-4, fp, NULL, FALSE)
  ELSE
    Result(0,
           Ptr(Descriptor(IF clear_flag THEN memset(buffer[1], 0, size * entry_size)
                          ELSE buffer[1],
                          entry_size * size, entry_size, size)),
           NULL,
           clear_flag /\ ~InBlock(Len(buffer[1]), 0, size * entry_size))

\* ============================================== the interface of fifo.h
\* An entry is a block of sizeof(T) or entry_size bytes; the typed pushes
\* take it by value.
Clear(v, fp) ==
  CASE v = "uint8" -> fifo_uint8_clear(fp)
    [] v = "uint16" -> fifo_uint16_clear(fp)
    [] v = "uint32" -> fifo_uint32_clear(fp)
    [] v = "common" -> fifo_common_clear(fp)

Pop(v, fp, val, junk) ==
  CASE v = "uint8" -> fifo_uint8_pop(fp, val, junk)
    [] v = "uint16" -> fifo_uint16_pop(fp, val, junk)
    [] v = "uint32" -> fifo_uint32_pop(fp, val, junk)
    [] v = "common" -> fifo_common_pop(fp, val, junk)

PopMul(v, fp, pop_buffer, m, junk) ==
  CASE v = "uint8" -> fifo_uint8_pop_mul(fp, pop_buffer, m, junk)
    [] v = "uint16" -> fifo_uint16_pop_mul(fp, pop_buffer, m, junk)
    [] v = "uint32" -> fifo_uint32_pop_mul(fp, pop_buffer, m, junk)
    [] v = "common" -> fifo_common_pop_mul(fp, pop_buffer, m, junk)

Push(v, fp, entry) ==
  CASE v = "uint8" -> fifo_uint8_push(fp, FromBytes(entry))
    [] v = "uint16" -> fifo_uint16_push(fp, FromBytes(entry))
    [] v = "uint32" -> fifo_uint32_push(fp, FromBytes(entry))
    [] v = "common" -> fifo_common_push(fp, Ptr(entry))

PushMul(v, fp, push_buffer, m, junk) ==
  CASE v = "uint8" -> fifo_uint8_push_mul(fp, push_buffer, m, junk)
    [] v = "uint16" -> fifo_uint16_push_mul(fp, push_buffer, m, junk)
    [] v = "uint32" -> fifo_uint32_push_mul(fp, push_buffer, m, junk)
    [] v = "common" -> fifo_common_push_mul(fp, push_buffer, m, junk)

FifoInit(v, fp, buffer, size, entry_size, clear_flag) ==
  CASE v = "uint8" -> fifo_uint8_init(fp, buffer, size, clear_flag)
    [] v = "uint16" -> fifo_uint16_init(fp, buffer, size, clear_flag)
    [] v = "uint32" -> fifo_uint32_init(fp, buffer, size, clear_flag)
    [] v = "common" -> fifo_common_init(fp, buffer, size, entry_size, clear_flag)

\* ========================================================= the callers
VARIABLES
  variant,   \* which of the four FIFOs the program uses
  fifo,      \* the descriptor, with the storage block it points to
  out,       \* the caller's destination block after the last pop or pop_mul
  call,      \* the last call: its name, its count argument, its return code
  ref,       \* the entries pushed and not yet popped, oldest first
  oob,       \* the last call touched memory outside the blocks it was given
  prod,      \* the producer context: the push or push_mul call in progress
  cons       \* the consumer context: the pop or pop_mul call in progress

vars == <<variant, fifo, out, call, ref, oob, prod, cons>>

\* A context that is in no call.  pc is the statement the context executes
\* next; m, buf, off, limit and reg are the call's count argument, the
\* caller's block, the offset its buffer pointer has advanced by, the local
\* limit and the register holding free_size between a read and a write;
\* hist, calls and done record the bytes copied so far, the calls made and
\* the statements the current call has executed.
Idle ==
  [pc |-> "idle", op |-> "none", m |-> 0, buf |-> <<>>, off |-> 0, limit |-> 0,
   reg |-> 0, ret |-> 0, hist |-> <<>>, calls |-> 0, done |-> <<>>]

\* largest count argument the callers pass
MaxM == MaxSize + 1

\* the block of n bytes all equal to c
Fill(n, c) == [i \in 1..n |-> c]

\* the blocks of m entries of sz bytes the callers push: successive values
PushBuffers(m, sz) ==
  {[j \in 1..m * sz |-> ((start + (j - 1) \div sz) % NumVals) + 1] :
     start \in 0..NumVals - 1}

\* the entries of sz bytes held by a block
Elems(block, sz) ==
  [i \in 1..Len(block) \div sz |-> Slice(block, (i - 1) * sz, sz)]

\* the first n entries of a queue, and the rest
Take(q, n) == SubSeq(q, 1, Min(n, Len(q)))
Drop(q, n) == SubSeq(q, Min(n, Len(q)) + 1, Len(q))

Sizeof(v, f) ==
  CASE v = "uint8" -> SizeofU8
    [] v = "uint16" -> SizeofU16
    [] v = "uint32" -> SizeofU32
    [] v = "common" -> f.entry_size

\* free_size is followed up to MaxFree, and just below 2^16 (where a
\* decrement of 0 would land)
Explored(free) == free <= MaxFree \/ free >= U16 - MaxM

\* The state a returned call leaves, and the reference queue beside it:
\* pushed entries are appended and popped entries removed when the call
\* returned 0, and a successful clear or init empties it.
Commit(op, m, r, pushed, popped, reset) ==
  /\ ~r.crash
  /\ r.fifo # NULL => Explored(r.fifo[1].free_size)
  /\ fifo' = IF r.fifo = NULL THEN fifo ELSE r.fifo[1]
  /\ out' = IF r.out = NULL THEN <<>> ELSE r.out[1]
  /\ call' = [op |-> op, m |-> m, ret |-> r.ret]
  /\ ref' = IF r.ret # 0 THEN ref
            ELSE IF reset THEN <<>>
            ELSE Drop(ref \o pushed, popped)
  /\ oob' = r.oob
  /\ UNCHANGED <<variant, prod, cons>>

\* R(junk) is the call's result when every byte it reads outside its blocks
\* is junk; a call that does not return leaves no next state.
Apply(op, m, R(_), pushed, popped, reset) ==
  LET r0 == R(0) IN
  IF r0.oob
  THEN \E junk \in Byte : Commit(op, m, R(junk), pushed, popped, reset)
  ELSE Commit(op, m, r0, pushed, popped, reset)

\* ---- the arguments the callers pass
\* the destination blocks are zeroed before the call
Dest(n) == Fill(n, 0)

FifoArgs == {Ptr(fifo), NULL}

\* <<fifo, val>> of pop
PopArgs(sz) ==
  {<<Ptr(fifo), Ptr(Dest(sz))>>, <<NULL, Ptr(Dest(sz))>>, <<Ptr(fifo), NULL>>}

\* <<fifo, pop_buffer, m>> of pop_mul
PopMulArgs(sz) ==
  {<<Ptr(fifo), Ptr(Dest(m * sz)), m>> : m \in 0..MaxM}
    \cup {<<NULL, Ptr(Dest(sz)), 1>>, <<Ptr(fifo), NULL, 1>>}

\* <<fifo, push_buffer, m>> of push_mul
PushMulArgs(sz) ==
  UNION {{<<Ptr(fifo), Ptr(data), m>> : data \in PushBuffers(m, sz)} : m \in 0..MaxM}
    \cup {<<NULL, Ptr(Fill(sz, 1)), 1>>, <<Ptr(fifo), NULL, 1>>}

\* <<fifo, buffer, size, entry_size, clear_flag>> of init, over the block
\* the FIFO already uses
InitArgs(esizes) ==
  {<<Ptr(fifo), Ptr(fifo.buffer), size, esize, clear_flag>> :
     size \in {0, fifo.max_size}, esize \in esizes, clear_flag \in BOOLEAN}
    \cup {<<NULL, Ptr(fifo.buffer), fifo.max_size, fifo.entry_size, FALSE>>,
          <<Ptr(fifo), NULL, fifo.max_size, fifo.entry_size, FALSE>>}

\* the entries a push_mul hands over
Pushed(push_buffer, sz) ==
  IF push_buffer = NULL THEN <<>> ELSE Elems(push_buffer[1], sz)

\* ---- uint8_t
call_fifo_uint8_clear ==
  /\ variant = "uint8"
  /\ \E fp \in FifoArgs :
       Apply("clear", 0, LAMBDA junk : fifo_uint8_clear(fp), <<>>, 0, TRUE)

call_fifo_uint8_pop ==
  /\ variant = "uint8"
  /\ \E a \in PopArgs(SizeofU8) :
       Apply("pop", 1, LAMBDA junk : fifo_uint8_pop(a[1], a[2], junk),
             <<>>, 1, FALSE)

call_fifo_uint8_pop_mul ==
  /\ variant = "uint8"
  /\ \E a \in PopMulArgs(SizeofU8) :
       Apply("pop_mul", a[3], LAMBDA junk : fifo_uint8_pop_mul(a[1], a[2], a[3], junk),
             <<>>, a[3], FALSE)

call_fifo_uint8_push ==
  /\ variant = "uint8"
  /\ \E fp \in FifoArgs, entry \in PushBuffers(1, SizeofU8) :
       Apply("push", 1, LAMBDA junk : fifo_uint8_push(fp, FromBytes(entry)),
             <<entry>>, 0, FALSE)

call_fifo_uint8_push_mul ==
  /\ variant = "uint8"
  /\ \E a \in PushMulArgs(SizeofU8) :
       Apply("push_mul", a[3], LAMBDA junk : fifo_uint8_push_mul(a[1], a[2], a[3], junk),
             Pushed(a[2], SizeofU8), 0, FALSE)

call_fifo_uint8_init ==
  /\ variant = "uint8"
  /\ \E a \in InitArgs({SizeofU8}) :
       Apply("init", a[3], LAMBDA junk : fifo_uint8_init(a[1], a[2], a[3], a[5]),
             <<>>, 0, TRUE)

NextU8 ==
  \/ call_fifo_uint8_clear
  \/ call_fifo_uint8_pop
  \/ call_fifo_uint8_pop_mul
  \/ call_fifo_uint8_push
  \/ call_fifo_uint8_push_mul
  \/ call_fifo_uint8_init

\* ---- uint16_t
call_fifo_uint16_clear ==
  /\ variant = "uint16"
  /\ \E fp \in FifoArgs :
       Apply("clear", 0, LAMBDA junk : fifo_uint16_clear(fp), <<>>, 0, TRUE)

call_fifo_uint16_pop ==
  /\ variant = "uint16"
  /\ \E a \in PopArgs(SizeofU16) :
       Apply("pop", 1, LAMBDA junk : fifo_uint16_pop(a[1], a[2], junk),
             <<>>, 1, FALSE)

call_fifo_uint16_pop_mul ==
  /\ variant = "uint16"
  /\ \E a \in PopMulArgs(SizeofU16) :
       Apply("pop_mul", a[3], LAMBDA junk : fifo_uint16_pop_mul(a[1], a[2], a[3], junk),
             <<>>, a[3], FALSE)

call_fifo_uint16_push ==
  /\ variant = "uint16"
  /\ \E fp \in FifoArgs, entry \in PushBuffers(1, SizeofU16) :
       Apply("push", 1, LAMBDA junk : fifo_uint16_push(fp, FromBytes(entry)),
             <<entry>>, 0, FALSE)

call_fifo_uint16_push_mul ==
  /\ variant = "uint16"
  /\ \E a \in PushMulArgs(SizeofU16) :
       Apply("push_mul", a[3], LAMBDA junk : fifo_uint16_push_mul(a[1], a[2], a[3], junk),
             Pushed(a[2], SizeofU16), 0, FALSE)

call_fifo_uint16_init ==
  /\ variant = "uint16"
  /\ \E a \in InitArgs({SizeofU16}) :
       Apply("init", a[3], LAMBDA junk : fifo_uint16_init(a[1], a[2], a[3], a[5]),
             <<>>, 0, TRUE)

NextU16 ==
  \/ call_fifo_uint16_clear
  \/ call_fifo_uint16_pop
  \/ call_fifo_uint16_pop_mul
  \/ call_fifo_uint16_push
  \/ call_fifo_uint16_push_mul
  \/ call_fifo_uint16_init

\* ---- uint32_t
call_fifo_uint32_clear ==
  /\ variant = "uint32"
  /\ \E fp \in FifoArgs :
       Apply("clear", 0, LAMBDA junk : fifo_uint32_clear(fp), <<>>, 0, TRUE)

call_fifo_uint32_pop ==
  /\ variant = "uint32"
  /\ \E a \in PopArgs(SizeofU32) :
       Apply("pop", 1, LAMBDA junk : fifo_uint32_pop(a[1], a[2], junk),
             <<>>, 1, FALSE)

call_fifo_uint32_pop_mul ==
  /\ variant = "uint32"
  /\ \E a \in PopMulArgs(SizeofU32) :
       Apply("pop_mul", a[3], LAMBDA junk : fifo_uint32_pop_mul(a[1], a[2], a[3], junk),
             <<>>, a[3], FALSE)

call_fifo_uint32_push ==
  /\ variant = "uint32"
  /\ \E fp \in FifoArgs, entry \in PushBuffers(1, SizeofU32) :
       Apply("push", 1, LAMBDA junk : fifo_uint32_push(fp, FromBytes(entry)),
             <<entry>>, 0, FALSE)

call_fifo_uint32_push_mul ==
  /\ variant = "uint32"
  /\ \E a \in PushMulArgs(SizeofU32) :
       Apply("push_mul", a[3], LAMBDA junk : fifo_uint32_push_mul(a[1], a[2], a[3], junk),
             Pushed(a[2], SizeofU32), 0, FALSE)

call_fifo_uint32_init ==
  /\ variant = "uint32"
  /\ \E a \in InitArgs({SizeofU32}) :
       Apply("init", a[3], LAMBDA junk : fifo_uint32_init(a[1], a[2], a[3], a[5]),
             <<>>, 0, TRUE)

NextU32 ==
  \/ call_fifo_uint32_clear
  \/ call_fifo_uint32_pop
  \/ call_fifo_uint32_pop_mul
  \/ call_fifo_uint32_push
  \/ call_fifo_uint32_push_mul
  \/ call_fifo_uint32_init

\* ---- common
call_fifo_common_clear ==
  /\ variant = "common"
  /\ \E fp \in FifoArgs :
       Apply("clear", 0, LAMBDA junk : fifo_common_clear(fp), <<>>, 0, TRUE)

call_fifo_common_pop ==
  /\ variant = "common"
  /\ \E a \in PopArgs(fifo.entry_size) :
       Apply("pop", 1, LAMBDA junk : fifo_common_pop(a[1], a[2], junk),
             <<>>, 1, FALSE)

call_fifo_common_pop_mul ==
  /\ variant = "common"
  /\ \E a \in PopMulArgs(fifo.entry_size) :
       Apply("pop_mul", a[3], LAMBDA junk : fifo_common_pop_mul(a[1], a[2], a[3], junk),
             <<>>, a[3], FALSE)

call_fifo_common_push ==
  /\ variant = "common"
  /\ \E fp \in FifoArgs :
     \E val_buffer \in {Ptr(data) : data \in PushBuffers(1, fifo.entry_size)}
                         \cup {NULL} :
       Apply("push", 1, LAMBDA junk : fifo_common_push(fp, val_buffer),
             Pushed(val_buffer, fifo.entry_size), 0, FALSE)

call_fifo_common_push_mul ==
  /\ variant = "common"
  /\ \E a \in PushMulArgs(fifo.entry_size) :
       Apply("push_mul", a[3], LAMBDA junk : fifo_common_push_mul(a[1], a[2], a[3], junk),
             Pushed(a[2], fifo.entry_size), 0, FALSE)

call_fifo_common_init ==
  /\ variant = "common"
  /\ \E a \in InitArgs({0, fifo.entry_size}) :
       Apply("init", a[3], LAMBDA junk : fifo_common_init(a[1], a[2], a[3], a[4], a[5]),
             <<>>, 0, TRUE)

NextCommon ==
  \/ call_fifo_common_clear
  \/ call_fifo_common_pop
  \/ call_fifo_common_pop_mul
  \/ call_fifo_common_push
  \/ call_fifo_common_push_mul
  \/ call_fifo_common_init

\* The program starts with a FIFO created over a block of uninitialised
\* caller memory.
InitOf(v) ==
  /\ variant = v
  /\ \E size \in 1..MaxSize, clear_flag \in BOOLEAN, c \in Byte :
     \E esize \in (IF v = "common" THEN 1..MaxEntrySize
                   ELSE {Sizeof(v, [entry_size |-> 0])}) :
       LET r == FifoInit(v, Ptr([entry_size |-> 0]), Ptr(Fill(size * esize, c)),
                         size, esize, clear_flag)
       IN /\ fifo = r.fifo[1]
          /\ call = [op |-> "init", m |-> size, ret |-> r.ret]
  /\ out = <<>>
  /\ ref = <<>>
  /\ oob = FALSE
  /\ prod = Idle
  /\ cons = Idle

InitU8 == InitOf("uint8")

SpecU8 == InitU8 /\ [][NextU8]_vars

InitU16 == InitOf("uint16")

SpecU16 == InitU16 /\ [][NextU16]_vars

InitU32 == InitOf("uint32")

SpecU32 == InitU32 /\ [][NextU32]_vars

InitCommon == InitOf("common")

SpecCommon == InitCommon /\ [][NextCommon]_vars

Init == \E v \in Variants : InitOf(v)

Next == NextU8 \/ NextU16 \/ NextU32 \/ NextCommon

Spec == Init /\ [][Next]_vars

\* The uint16_t, uint32_t and common FIFOs used through clear, pop and push
\* only.
InitSingle == InitU16 \/ InitU32 \/ InitCommon

NextSingle ==
  \/ call_fifo_uint16_clear
  \/ call_fifo_uint16_pop
  \/ call_fifo_uint16_push
  \/ call_fifo_uint32_clear
  \/ call_fifo_uint32_pop
  \/ call_fifo_uint32_push
  \/ call_fifo_common_clear
  \/ call_fifo_common_pop
  \/ call_fifo_common_push

SpecSingle == InitSingle /\ [][NextSingle]_vars

\* ================================================= statement by statement
\* The same functions executed one statement at a time, by a producer
\* context (push, push_mul) and a consumer context (pop, pop_mul) that share
\* the descriptor.  The argument checks that read no shared field are
\* made when the call is entered; the first statement of a call is the
\* check that reads free_size.

\* largest number of calls a context makes
MaxCalls == 3

Goto(c, pc) == [c EXCEPT !.pc = pc, !.done = Append(@, c.pc)]

Return(c, code) ==
  [c EXCEPT !.pc = "idle", !.ret = code, !.done = Append(@, c.pc)]

Enter(c, op, m, buf) ==
  [c EXCEPT !.pc = "check", !.op = op, !.m = m, !.buf = buf, !.off = 0,
            !.limit = 0, !.reg = 0, !.calls = @ + 1, !.done = <<>>]

\* the bytes a memcpy(dst + d, src + s, n) stores inside dst, in order
Copied(dst, d, src, s, n, junk) ==
  LET lo == Max(d, 0)
      hi == Min(d + n, Len(dst))
  IN [i \in 1..Max(hi - lo, 0) |-> Rd(src, s + (lo + i - 1 - d), junk)]

\* what the statement at c.pc makes of the descriptor and of the context
Step(f, c) == [fifo |-> f, ctx |-> c, crash |-> FALSE]

\* a statement that does not complete
Stuck(f, c) == [fifo |-> f, ctx |-> c, crash |-> TRUE]

\* In the wrap branch of push_mul and pop_mul, with dist the distance in
\* bytes from the pointer to limit_ptr: the length given to the first
\* memcpy, the bytes the caller's buffer pointer advances by, and the amount
\* subtracted from m.
first_memcpy_len(v, sz, dist) ==
  IF v = "common" THEN dist * sz ELSE dist \div sz

buffer_advance(v, sz, dist) ==
  IF v = "common" THEN dist * sz ELSE ((dist \div sz) \div sz) * sz

count_decrease(v, op, sz, dist) ==
  IF v = "common" THEN (IF op = "pop_mul" THEN dist ELSE dist \div sz)
  ELSE (dist \div sz) \div sz

\* the statement that follows pc in a function body
After(order, pc) ==
  LET i == CHOOSE k \in 1..Len(order) : order[k] = pc
  IN IF i = Len(order) THEN "return" ELSE order[i + 1]

\* the statement pc is executed: the next one, or the return of code
Next_stmt(c, order, code) ==
  IF After(order, c.pc) = "return" THEN Return(c, code)
  ELSE Goto(c, After(order, c.pc))

\* mutant of count_write: the write reads free_size again
count_write_reread(f, c, d) == (f.free_size + d) % U16

\* free_size-- or free_size++ done as a read into a register followed by a
\* write: the value the write stores, d being -1 or 1
count_write(f, c, d) == (c.reg + d) % U16

\* mutant of push_order: free_size is decreased before the entry is stored
push_order_count_first == <<"check", "count", "store", "advance", "wrap">>

\* the statements of fifo_*_push after the NULL checks:
\* if(fifo->free_size == 0) return; *fifo->tail_ptr = val; fifo->tail_ptr++;
\* fifo->free_size--; if(fifo->tail_ptr >= fifo->limit_ptr) ...
push_order == <<"check", "store", "advance", "count", "wrap">>

\* fifo_*_push; atomic tells whether free_size-- is one step or a read
\* followed by a write
push_stmt(v, f, c, atomic) ==
  CASE c.pc = "check" ->
         IF (IF v = "uint8" THEN uint8_full(f) ELSE f.free_size = 0)
         THEN Step(f, Return(c, IF v = "common" THEN -3 ELSE -2))
         ELSE Step(f, Next_stmt(c, push_order, 0))
    [] c.pc = "store" ->
         Step([f EXCEPT !.buffer = memcpy(f.buffer, f.tail_ptr, c.buf, 0,
                                          f.entry_size, 0)],
              Next_stmt([c EXCEPT !.hist = @ \o Copied(f.buffer, f.tail_ptr, c.buf,
                                                       0, f.entry_size, 0)],
                        push_order, 0))
    [] c.pc = "advance" ->
         Step([f EXCEPT !.tail_ptr = f.tail_ptr + f.entry_size],
              Next_stmt(c, push_order, 0))
    [] c.pc = "count" ->
         IF atomic
         THEN Step([f EXCEPT !.free_size = (f.free_size - 1) % U16],
                   Next_stmt(c, push_order, 0))
         ELSE Step(f, [c EXCEPT !.reg = f.free_size, !.pc = "count_write"])
    [] c.pc = "count_write" ->
         Step([f EXCEPT !.free_size = count_write(f, c, -1)],
              Next_stmt([c EXCEPT !.pc = "count"], push_order, 0))
    [] c.pc = "wrap" ->
         Step([f EXCEPT !.tail_ptr = wrap_ptr(f.tail_ptr, f)],
              Next_stmt(c, push_order, 0))

\* the statements of fifo_*_pop after the NULL checks:
\* if(fifo->free_size == fifo->max_size) return; *val = *fifo->head_ptr;
\* fifo->head_ptr++; fifo->free_size++; if(fifo->head_ptr >= ...) ...
pop_order == <<"check", "load", "advance", "count", "wrap">>

\* fifo_*_pop
pop_stmt(v, f, c, junk, atomic) ==
  CASE c.pc = "check" ->
         IF f.free_size = f.max_size THEN Step(f, Return(c, -3))
         ELSE Step(f, Next_stmt(c, pop_order, 0))
    [] c.pc = "load" ->
         Step(f,
              Next_stmt([c EXCEPT
                           !.buf = memcpy(c.buf, 0, f.buffer, f.head_ptr,
                                          f.entry_size, junk),
                           !.hist = @ \o Copied(c.buf, 0, f.buffer, f.head_ptr,
                                                f.entry_size, junk)],
                        pop_order, 0))
    [] c.pc = "advance" ->
         Step([f EXCEPT !.head_ptr = f.head_ptr + f.entry_size],
              Next_stmt(c, pop_order, 0))
    [] c.pc = "count" ->
         IF atomic
         THEN Step([f EXCEPT !.free_size = (f.free_size + 1) % U16],
                   Next_stmt(c, pop_order, 0))
         ELSE Step(f, [c EXCEPT !.reg = f.free_size, !.pc = "count_write"])
    [] c.pc = "count_write" ->
         Step([f EXCEPT !.free_size = count_write(f, c, 1)],
              Next_stmt([c EXCEPT !.pc = "count"], pop_order, 0))
    [] c.pc = "wrap" ->
         Step([f EXCEPT !.head_ptr = wrap_ptr(f.head_ptr, f)],
              Next_stmt(c, pop_order, 0))

\* mutant of push_mul_order: free_size is decreased after the copies
push_mul_order_count_last ==
  <<"check", "limit", "if", "copy1", "adv", "dec", "reset", "copy2", "move",
    "count">>

\* the statements of fifo_*_push_mul and fifo_*_pop_mul after the NULL and
\* m == 0 checks: if(m > ...) return; fifo->free_size -= m (+= m);
\* limit = ...; if(limit >= fifo->limit_ptr) { memcpy; buffer += ...;
\* m -= ...; ptr = fifo->buffer; } memcpy; ptr += m;
push_mul_order ==
  <<"check", "count", "limit", "if", "copy1", "adv", "dec", "reset", "copy2",
    "move">>

pop_mul_order ==
  <<"check", "count", "limit", "if", "copy1", "adv", "dec", "reset", "copy2",
    "move">>

\* the if statement: into the braces, or past them
Branch(c, order, taken) ==
  IF taken THEN Next_stmt(c, order, 0)
  ELSE [c EXCEPT !.pc = After(order, "reset"), !.done = Append(@, c.pc)]

\* fifo_*_push_mul
push_mul_stmt(v, f, c, junk) ==
  LET sz   == f.entry_size
      dist == f.limit_ptr - f.tail_ptr
      n1   == first_memcpy_len(v, sz, dist)
  IN
  CASE c.pc = "check" ->
         IF c.m = 0 THEN Step(f, Return(c, -3))
         ELSE IF (IF v = "uint8" THEN uint8_push_mul_too_many(f, c.m)
                  ELSE c.m > f.free_size)
         THEN Step(f, Return(c, -4))
         ELSE Step(f, Next_stmt(c, push_mul_order, 0))
    [] c.pc = "count" ->
         Step([f EXCEPT !.free_size = (f.free_size - c.m) % U16],
              Next_stmt(c, push_mul_order, 0))
    [] c.pc = "limit" ->
         Step(f, Next_stmt([c EXCEPT !.limit = f.tail_ptr + c.m * sz],
                           push_mul_order, 0))
    [] c.pc = "if" ->
         Step(f, Branch(c, push_mul_order, c.limit >= f.limit_ptr))
    [] c.pc = "copy1" ->
         IF n1 < 0 THEN Stuck(f, c)
         ELSE Step([f EXCEPT !.buffer = memcpy(f.buffer, f.tail_ptr, c.buf, c.off,
                                               n1, junk)],
                   Next_stmt([c EXCEPT !.hist = @ \o Copied(f.buffer, f.tail_ptr,
                                                            c.buf, c.off, n1, junk)],
                             push_mul_order, 0))
    [] c.pc = "adv" ->
         Step(f, Next_stmt([c EXCEPT !.off = @ + buffer_advance(v, sz, dist)],
                           push_mul_order, 0))
    [] c.pc = "dec" ->
         Step(f, Next_stmt([c EXCEPT
                              !.m = (@ - count_decrease(v, "push_mul", sz, dist))
                                      % U16],
                           push_mul_order, 0))
    [] c.pc = "reset" ->
         Step([f EXCEPT !.tail_ptr = 0], Next_stmt(c, push_mul_order, 0))
    [] c.pc = "copy2" ->
         Step([f EXCEPT !.buffer = memcpy(f.buffer, f.tail_ptr, c.buf, c.off,
                                          c.m * sz, junk)],
              Next_stmt([c EXCEPT !.hist = @ \o Copied(f.buffer, f.tail_ptr, c.buf,
                                                       c.off, c.m * sz, junk)],
                        push_mul_order, 0))
    [] c.pc = "move" ->
         Step([f EXCEPT !.tail_ptr = f.tail_ptr + c.m * sz],
              Next_stmt(c, push_mul_order, 0))

\* fifo_*_pop_mul
pop_mul_stmt(v, f, c, junk) ==
  LET sz   == f.entry_size
      dist == f.limit_ptr - f.head_ptr
      n1   == first_memcpy_len(v, sz, dist)
  IN
  CASE c.pc = "check" ->
         IF c.m = 0 THEN Step(f, Return(c, -3))
         ELSE IF (IF v = "uint8" THEN uint8_pop_mul_too_many(f, c.m)
                  ELSE c.m > f.max_size)
         THEN Step(f, Return(c, -4))
         ELSE Step(f, Next_stmt(c, pop_mul_order, 0))
    [] c.pc = "count" ->
         Step([f EXCEPT !.free_size = (f.free_size + c.m) % U16],
              Next_stmt(c, pop_mul_order, 0))
    [] c.pc = "limit" ->
         Step(f, Next_stmt([c EXCEPT !.limit = f.head_ptr + c.m * sz],
                           pop_mul_order, 0))
    [] c.pc = "if" ->
         Step(f, Branch(c, pop_mul_order, c.limit >= f.limit_ptr))
    [] c.pc = "copy1" ->
         IF n1 < 0 THEN Stuck(f, c)
         ELSE Step(f,
                   Next_stmt([c EXCEPT
                                !.buf = memcpy(c.buf, c.off, f.buffer, f.head_ptr,
                                               n1, junk),
                                !.hist = @ \o Copied(c.buf, c.off, f.buffer,
                                                     f.head_ptr, n1, junk)],
                             pop_mul_order, 0))
    [] c.pc = "adv" ->
         Step(f, Next_stmt([c EXCEPT !.off = @ + buffer_advance(v, sz, dist)],
                           pop_mul_order, 0))
    [] c.pc = "dec" ->
         Step(f, Next_stmt([c EXCEPT
                              !.m = (@ - count_decrease(v, "pop_mul", sz, dist))
                                      % U16],
                           pop_mul_order, 0))
    [] c.pc = "reset" ->
         Step([f EXCEPT !.head_ptr = 0], Next_stmt(c, pop_mul_order, 0))
    [] c.pc = "copy2" ->
         Step(f,
              Next_stmt([c EXCEPT
                           !.buf = memcpy(c.buf, c.off, f.buffer, f.head_ptr,
                                          c.m * sz, junk),
                           !.hist = @ \o Copied(c.buf, c.off, f.buffer, f.head_ptr,
                                                c.m * sz, junk)],
                        pop_mul_order, 0))
    [] c.pc = "move" ->
         Step([f EXCEPT !.head_ptr = f.head_ptr + c.m * sz],
              Next_stmt(c, pop_mul_order, 0))

\* ---- the two contexts
\* the block of m entries the producer hands over next: values never seen
\* in uninitialised storage, each larger than the one before
Fresh(m, sz) ==
  [j \in 1..m * sz |-> NumVals + Len(prod.hist) \div sz + (j - 1) \div sz + 1]

\* the producer executes one statement
ProducerDoes(r) ==
  /\ ~r.crash
  /\ fifo' = r.fifo
  /\ prod' = r.ctx
  /\ UNCHANGED <<variant, out, call, ref, oob, cons>>

\* the consumer executes one statement
ConsumerDoes(r) ==
  /\ ~r.crash
  /\ fifo' = r.fifo
  /\ cons' = r.ctx
  /\ UNCHANGED <<variant, out, call, ref, oob, prod>>

producer_calls_push ==
  /\ prod.pc = "idle" /\ prod.calls < MaxCalls
  /\ prod' = Enter(prod, "push", 1, Fresh(1, fifo.entry_size))
  /\ UNCHANGED <<variant, fifo, out, call, ref, oob, cons>>

producer_calls_push_mul ==
  /\ prod.pc = "idle" /\ prod.calls < MaxCalls
  /\ \E m \in 0..MaxM :
       prod' = Enter(prod, "push_mul", m, Fresh(m, fifo.entry_size))
  /\ UNCHANGED <<variant, fifo, out, call, ref, oob, cons>>

consumer_calls_pop ==
  /\ cons.pc = "idle" /\ cons.calls < MaxCalls
  /\ cons' = Enter(cons, "pop", 1, Dest(fifo.entry_size))
  /\ UNCHANGED <<variant, fifo, out, call, ref, oob, prod>>

consumer_calls_pop_mul ==
  /\ cons.pc = "idle" /\ cons.calls < MaxCalls
  /\ \E m \in 0..MaxM :
       cons' = Enter(cons, "pop_mul", m, Dest(m * fifo.entry_size))
  /\ UNCHANGED <<variant, fifo, out, call, ref, oob, prod>>

producer_push_stmt ==
  /\ prod.pc # "idle" /\ prod.op = "push"
  /\ ProducerDoes(push_stmt(variant, fifo, prod, TRUE))

consumer_pop_stmt ==
  /\ cons.pc # "idle" /\ cons.op = "pop"
  /\ \E junk \in Byte : ConsumerDoes(pop_stmt(variant, fifo, cons, junk, TRUE))

producer_push_mul_stmt ==
  /\ prod.pc # "idle" /\ prod.op = "push_mul"
  /\ \E junk \in Byte : ProducerDoes(push_mul_stmt(variant, fifo, prod, junk))

consumer_pop_mul_stmt ==
  /\ cons.pc # "idle" /\ cons.op = "pop_mul"
  /\ \E junk \in Byte : ConsumerDoes(pop_mul_stmt(variant, fifo, cons, junk))

\* free_size-- and free_size++ as a read followed by a write
producer_push_stmt_split ==
  /\ prod.pc # "idle" /\ prod.op = "push"
  /\ ProducerDoes(push_stmt(variant, fifo, prod, FALSE))

consumer_pop_stmt_split ==
  /\ cons.pc # "idle" /\ cons.op = "pop"
  /\ \E junk \in Byte : ConsumerDoes(pop_stmt(variant, fifo, cons, junk, FALSE))

\* one context pushes single entries into a uint8_t FIFO, the other pops them
NextPushPop ==
  \/ producer_calls_push
  \/ producer_push_stmt
  \/ consumer_calls_pop
  \/ consumer_pop_stmt

SpecPushPop == InitU8 /\ [][NextPushPop]_vars

\* the producer also uses push_mul and the consumer pop_mul
NextBulk ==
  \/ producer_calls_push
  \/ producer_push_stmt
  \/ producer_calls_push_mul
  \/ producer_push_mul_stmt
  \/ consumer_calls_pop
  \/ consumer_pop_stmt
  \/ consumer_calls_pop_mul
  \/ consumer_pop_mul_stmt

SpecBulk == InitU8 /\ [][NextBulk]_vars

\* single pushes and pops whose counter updates are not atomic
NextSplit ==
  \/ producer_calls_push
  \/ producer_push_stmt_split
  \/ consumer_calls_pop
  \/ consumer_pop_stmt_split

SpecSplit == InitU8 /\ [][NextSplit]_vars

\* a call may be entered: no call is in progress and fewer than MaxCalls
\* calls have been made
MayCall == (prod.pc = "idle" /\ cons.pc = "idle") /\ prod.calls + cons.calls < MaxCalls

\* the four FIFOs, statement by statement, one call after the other
NextStmt ==
  \/ MayCall /\ producer_calls_push
  \/ producer_push_stmt
  \/ MayCall /\ producer_calls_push_mul
  \/ producer_push_mul_stmt
  \/ MayCall /\ consumer_calls_pop
  \/ consumer_pop_stmt
  \/ MayCall /\ consumer_calls_pop_mul
  \/ consumer_pop_mul_stmt

SpecStmt == Init /\ [][NextStmt]_vars

\* ================================================================ claims
\* the bytes of a queue of entries, oldest first
RECURSIVE Flatten(_)
Flatten(q) == IF q = <<>> THEN <<>> ELSE q[1] \o Flatten(Tail(q))

Pops == {"pop", "pop_mul"}
Pushes == {"push", "push_mul"}

\* entry index of a pointer
Index(ptr, f) == ptr \div f.entry_size

\* C1: uint8 FIFO order.  Every pop or pop_mul of the uint8 FIFO that returns
\* 0 finds the requested number of entries in the reference queue and leaves
\* in the caller's block exactly the oldest entries of that queue, in order.
C1_FifoOrder ==
  [][(variant = "uint8" /\ call'.op \in Pops /\ call'.ret = 0)
       => /\ call'.m <= Len(ref)
          /\ out' = Flatten(Take(ref, call'.m))
          /\ ref' = Drop(ref, call'.m)]_vars

\* a pop_mul of two entries that started at the last slot and wrapped,
\* delivering two different values
C1_Witness ==
  /\ variant = "uint8" /\ fifo.max_size = 3
  /\ call = [op |-> "pop_mul", m |-> 2, ret |-> 0]
  /\ fifo.head_ptr = 1
  /\ out = <<1, 2>>

\* C2: uint8 capacity conservation.  free_size stays within [0, max_size]
\* and equals max_size minus the number of entries pushed and not yet popped.
C2_Conservation ==
  variant = "uint8" =>
    /\ 0 <= fifo.free_size /\ fifo.free_size <= fifo.max_size
    /\ fifo.free_size = fifo.max_size - Len(ref)

\* a rejected pop_mul on a FIFO holding two of three entries
C2_Witness ==
  /\ variant = "uint8" /\ fifo.max_size = 3
  /\ call.op = "pop_mul" /\ call.ret = -4
  /\ Len(ref) = 2 /\ fifo.free_size = 1

\* the FIFO after pushing the entries one at a time
RECURSIVE PushAll(_, _, _)
PushAll(v, f, entries) ==
  IF entries = <<>> THEN f
  ELSE PushAll(v, Push(v, Ptr(f), entries[1]).fifo[1], Tail(entries))

\* the storage offsets of the bytes of the entries stored and not yet popped
StoredBytes(f) ==
  {(f.head_ptr + i) % f.limit_ptr :
     i \in 0..((f.max_size - f.free_size) * f.entry_size - 1)}

Wide == {"uint16", "uint32", "common"}

\* C3: uint16, uint32 and common FIFOs keep 0 <= free_size <= max_size.
C3_FreeBounded ==
  variant \in Wide =>
    0 <= fifo.free_size /\ fifo.free_size <= fifo.max_size

\* C4: after every call head_ptr and tail_ptr point at an entry slot inside
\* the storage: buffer <= ptr < limit_ptr, at an entry index in [0, max_size).
C4_PointersInside ==
  /\ 0 <= fifo.head_ptr /\ fifo.head_ptr < fifo.limit_ptr
  /\ 0 <= fifo.tail_ptr /\ fifo.tail_ptr < fifo.limit_ptr
  /\ Index(fifo.head_ptr, fifo) < fifo.max_size
  /\ Index(fifo.tail_ptr, fifo) < fifo.max_size

\* a push_mul of m entries from data returns 0 and leaves the storage,
\* tail_ptr and free_size that m single pushes leave, and touches no byte of
\* an entry stored and not yet popped
SplitExact(v, f, data, m, junk) ==
  LET r == PushMul(v, Ptr(f), Ptr(data), m, junk)
      s == PushAll(v, f, Elems(data, f.entry_size))
  IN /\ ~r.crash
     /\ r.ret = 0
     /\ r.fifo[1].buffer = s.buffer
     /\ r.fifo[1].tail_ptr = s.tail_ptr
     /\ r.fifo[1].free_size = s.free_size
     /\ \A a \in StoredBytes(f) : r.fifo[1].buffer[a + 1] = f.buffer[a + 1]

\* the state satisfies the data model: free_size within [0, max_size] and
\* equal to the capacity minus the entries stored, head_ptr and tail_ptr at
\* entry slots inside the storage
Sane ==
  /\ 0 <= fifo.free_size /\ fifo.free_size <= fifo.max_size
  /\ Len(ref) = fifo.max_size - fifo.free_size
  /\ 0 <= fifo.head_ptr /\ fifo.head_ptr < fifo.limit_ptr
  /\ 0 <= fifo.tail_ptr /\ fifo.tail_ptr < fifo.limit_ptr

\* the run of m entries starting at tail_ptr reaches or crosses the end
ReachesEnd(f, m) == f.tail_ptr + m * f.entry_size >= f.limit_ptr

\* C5: uint16 and uint32 bulk split exactness.  In every reachable state, a
\* push_mul of 1 <= m <= free_size entries whose run reaches or crosses the
\* end of storage equals m single pushes of the same entries.  (Stated for
\* the reachable states that satisfy the data model, so that a violation is
\* one of the split itself.)
C5_SplitExactTyped ==
  variant \in {"uint16", "uint32"} =>
    \A m \in 1..MaxM : \A data \in PushBuffers(m, fifo.entry_size) :
      (Sane /\ m <= fifo.free_size /\ ReachesEnd(fifo, m))
        => \A junk \in Byte : SplitExact(variant, fifo, data, m, junk)

\* C6: common bulk split exactness, for every entry_size >= 1: the same
\* statement for fifo_common_push_mul and fifo_common_push.  (Stated for the
\* reachable states that satisfy the data model.)
C6_SplitExactCommon ==
  variant = "common" =>
    \A m \in 1..MaxM : \A data \in PushBuffers(m, fifo.entry_size) :
      (Sane /\ m <= fifo.free_size /\ ReachesEnd(fifo, m))
        => \A junk \in Byte : SplitExact(variant, fifo, data, m, junk)

\* C7: full/empty boundary, all four variants.  A single push on a FIFO with
\* free_size = 0 returns the buffer-full code (-2 typed, -3 common) and a
\* single pop on a FIFO with free_size = max_size returns -3; the descriptor,
\* the storage and the caller's variable are left as they were.
C7_FullEmptyBoundary ==
  /\ fifo.free_size = 0 =>
       \A entry \in PushBuffers(1, fifo.entry_size) :
         LET r == Push(variant, Ptr(fifo), entry) IN
         /\ ~r.crash /\ ~r.oob
         /\ r.ret = IF variant = "common" THEN -3 ELSE -2
         /\ r.fifo = Ptr(fifo)
  /\ fifo.free_size = fifo.max_size =>
       \A c \in Byte, junk \in Byte :
         LET val == Ptr(Fill(fifo.entry_size, c))
             r   == Pop(variant, Ptr(fifo), val, junk)
         IN /\ ~r.crash /\ ~r.oob
            /\ r.ret = -3
            /\ r.fifo = Ptr(fifo)
            /\ r.out = val

\* a push rejected by a full common FIFO of three entries
C7_Witness ==
  /\ variant = "common" /\ fifo.max_size = 3
  /\ call = [op |-> "push", m |-> 1, ret |-> -3]
  /\ fifo.free_size = 0 /\ Len(ref) = 3

\* C8: push_mul, all four variants, with non-NULL fifo and push_buffer.  The
\* call returns -3 when m = 0, else -4 when m > free_size, changing nothing;
\* it returns 0 exactly when 1 <= m <= free_size, and free_size then
\* decreases by exactly m.
C8_PushMulCodes ==
  \A m \in 0..MaxM : \A data \in PushBuffers(m, fifo.entry_size) :
  \A junk \in Byte :
    LET r == PushMul(variant, Ptr(fifo), Ptr(data), m, junk) IN
    /\ ~r.crash
    /\ m = 0 => r.ret = -3
    /\ (m # 0 /\ m > fifo.free_size) => r.ret = -4
    /\ r.ret \in {-3, -4} => r.fifo = Ptr(fifo)
    /\ r.ret = 0 <=> (1 <= m /\ m <= fifo.free_size)
    /\ r.ret = 0 => r.fifo[1].free_size = fifo.free_size - m

SameNextCall(v, a, b) ==
  LET sz == a[1].entry_size IN
  /\ \A junk \in Byte :
       LET x == Pop(v, a, Ptr(Dest(sz)), junk)
           y == Pop(v, b, Ptr(Dest(sz)), junk)
       IN x.ret = y.ret /\ (x.ret = 0 => x.out = y.out)
  /\ \A m \in 0..MaxM : \A junk \in Byte :
       LET x == PopMul(v, a, Ptr(Dest(m * sz)), m, junk)
           y == PopMul(v, b, Ptr(Dest(m * sz)), m, junk)
       IN (~x.oob /\ ~y.oob) =>
            x.ret = y.ret /\ (x.ret = 0 => x.out = y.out)
  /\ \A entry \in PushBuffers(1, sz) :
       Push(v, a, entry).ret = Push(v, b, entry).ret
  /\ \A m \in 0..MaxM : \A data \in PushBuffers(m, sz) : \A junk \in Byte :
       LET x == PushMul(v, a, Ptr(data), m, junk)
           y == PushMul(v, b, Ptr(data), m, junk)
       IN x.crash = y.crash /\ x.ret = y.ret

\* C10: idempotent clear, all four variants.  From any reachable state two
\* clear calls in a row leave the descriptor and the storage as one clear
\* does (head_ptr = tail_ptr = buffer, free_size = max_size), and the next
\* push, pop, push_mul or pop_mul call returns the same code and delivers the
\* same values as on a FIFO freshly initialised with the same capacity,
\* whatever its storage held and whatever clear_flag was passed.
C10_IdempotentClear ==
  LET once  == Clear(variant, Ptr(fifo))
      twice == Clear(variant, once.fifo)
      f     == once.fifo[1]
  IN /\ once.ret = 0 /\ twice.ret = 0
     /\ twice.fifo = once.fifo
     /\ f.head_ptr = 0 /\ f.tail_ptr = 0 /\ f.free_size = f.max_size
     /\ \A g \in Byte, clear_flag \in BOOLEAN :
          LET fresh == FifoInit(variant, Ptr(fifo),
                                Ptr(Fill(f.max_size * f.entry_size, g)),
                                f.max_size, f.entry_size, clear_flag)
          IN fresh.ret = 0 /\ SameNextCall(variant, twice.fifo, fresh.fifo)

\* C11: init, all four variants, called on the descriptor of any reachable
\* state.  It returns -1 for a NULL fifo, else -2 for a NULL buffer, else -3
\* for size = 0, else (common) -4 for entry_size = 0, and then leaves the
\* descriptor and its storage as they were; otherwise it returns 0 with
\* head_ptr = tail_ptr = buffer, max_size = free_size = size and limit_ptr
\* size * entry_size bytes past buffer.
C11_InitCodes ==
  \A size \in 0..MaxSize, clear_flag \in BOOLEAN :
  \A esize \in (IF variant = "common" THEN 0..MaxEntrySize
                ELSE {fifo.entry_size}) :
    LET block  == Fill(Max(size, 1) * Max(esize, 1), 1)
        r      == FifoInit(variant, Ptr(fifo), Ptr(block), size, esize, clear_flag)
        noFifo == FifoInit(variant, NULL, Ptr(block), size, esize, clear_flag)
        noBuf  == FifoInit(variant, Ptr(fifo), NULL, size, esize, clear_flag)
    IN /\ noFifo.ret = -1 /\ noFifo.fifo = NULL
       /\ noBuf.ret = -2 /\ noBuf.fifo = Ptr(fifo)
       /\ ~r.crash /\ ~r.oob
       /\ size = 0 => r.ret = -3
       /\ (size # 0 /\ esize = 0) => r.ret = -4
       /\ r.ret # 0 => r.fifo = Ptr(fifo)
       /\ r.ret = 0 <=> (size # 0 /\ esize # 0)
       /\ r.ret = 0 =>
            LET f == r.fifo[1] IN
            /\ f.head_ptr = 0 /\ f.tail_ptr = 0
            /\ f.max_size = size /\ f.free_size = size
            /\ f.entry_size = esize
            /\ f.limit_ptr = size * esize
            /\ Len(f.buffer) = Len(block)

\* a common FIFO of three 2-byte entries initialised again, without
\* clear_flag, over the storage it had filled
C11_Witness ==
  /\ variant = "common"
  /\ call = [op |-> "init", m |-> 3, ret |-> 0]
  /\ fifo.buffer = <<1, 1, 2, 2, 1, 1>>
  /\ fifo.head_ptr = 0 /\ fifo.tail_ptr = 0
  /\ fifo.free_size = 3 /\ fifo.limit_ptr = 6

\* C12: uint16, uint32 and common FIFOs driven by push, pop and clear only.
\* Every successful pop delivers the oldest entry pushed and not yet
\* popped, byte for byte, and before and after every call free_size is
\* max_size minus the number of stored entries.
C12_SingleOrder ==
  [][/\ fifo.free_size = fifo.max_size - Len(ref)
     /\ fifo'.free_size = fifo'.max_size - Len(ref')
     /\ (call'.op = "pop" /\ call'.ret = 0) =>
          /\ Len(ref) >= 1
          /\ out' = ref[1]
          /\ ref' = Tail(ref)]_vars

\* a uint32 FIFO of capacity two whose pops have wrapped: the third entry
\* pushed is delivered from slot 0 while the fourth waits in slot 1
C12_Witness ==
  /\ variant = "uint32" /\ fifo.max_size = 2
  /\ call = [op |-> "pop", m |-> 1, ret |-> 0]
  /\ out = <<1, 1, 1, 1>>
  /\ fifo.buffer = <<1, 1, 1, 1, 2, 2, 2, 2>>
  /\ fifo.head_ptr = 4 /\ fifo.tail_ptr = 0
  /\ ref = << <<2, 2, 2, 2>> >>

\* byte offsets of the storage that hold a pushed and not yet popped entry
Occupied(f) ==
  {(f.head_ptr + k) % (f.max_size * f.entry_size) :
     k \in 0..(f.max_size - f.free_size) * f.entry_size - 1}

\* pop_mul of m entries delivers a storage byte that belongs to no stored
\* entry: changing that byte changes what the caller receives
CopiesUnoccupied(v, f, m, junk) ==
  \E a \in (0..Len(f.buffer) - 1) \ Occupied(f) : \E b \in Byte :
    PopMul(v, Ptr([f EXCEPT !.buffer[a + 1] = b]), Ptr(Dest(m * f.entry_size)),
           m, junk).out
      # PopMul(v, Ptr(f), Ptr(Dest(m * f.entry_size)), m, junk).out

\* C13: fifo_uint16_pop_mul, fifo_uint32_pop_mul and fifo_common_pop_mul
\* with non-NULL arguments and m >= 1 return -4 exactly when m > max_size;
\* a request with max_size - free_size < m <= max_size returns 0 and hands
\* the caller bytes of slots that hold no stored entry.
C13_PopMulCapacityCheck ==
  variant \in Wide =>
    \A m \in 1..MaxM : \A junk \in Byte :
      LET r == PopMul(variant, Ptr(fifo), Ptr(Dest(m * fifo.entry_size)), m, junk)
      IN /\ r.ret = -4 <=> m > fifo.max_size
         /\ r.ret = -4 => r.fifo = Ptr(fifo)
         /\ (Sane /\ fifo.max_size - fifo.free_size < m /\ m <= fifo.max_size) =>
              /\ ~r.crash /\ r.ret = 0
              /\ r.fifo[1].free_size = fifo.free_size + m
              /\ CopiesUnoccupied(variant, fifo, m, junk)

\* m successive single pops: the descriptor they leave and the values they
\* return, in order
RECURSIVE PopEach(_, _, _, _)
PopEach(v, f, m, junk) ==
  IF m = 0 THEN [fifo |-> f, out |-> <<>>]
  ELSE LET r    == Pop(v, Ptr(f), Ptr(Dest(f.entry_size)), junk)
           rest == PopEach(v, r.fifo[1], m - 1, junk)
       IN [fifo |-> rest.fifo, out |-> r.out[1] \o rest.out]

\* C14: uint16 and uint32 FIFOs, in states with consistent accounting and
\* pointers inside the storage.  For 1 <= m <= max_size - free_size, pop_mul
\* returns 0, writes to pop_buffer the m values that m successive single
\* pops return, in order, and leaves head_ptr and free_size as those pops do.
C14_PopMulAsPops ==
  (variant \in {"uint16", "uint32"} /\ Sane) =>
    \A m \in 1..(fifo.max_size - fifo.free_size) : \A junk \in Byte :
      LET r == PopMul(variant, Ptr(fifo), Ptr(Dest(m * fifo.entry_size)), m, junk)
          s == PopEach(variant, fifo, m, junk)
      IN /\ ~r.crash /\ r.ret = 0
         /\ r.out[1] = s.out
         /\ r.fifo[1].head_ptr = s.fifo.head_ptr
         /\ r.fifo[1].free_size = s.fifo.free_size

\* C15: fifo_common_pop_mul in states with consistent accounting and
\* pointers inside the storage, with 1 <= m <= max_size - free_size and the
\* wrap branch taken.  With first_run the number of entries between head_ptr
\* and the end of storage, the count left after the subtraction is
\* m - first_run, within 0..max_size - 1, the copies stay inside pop_buffer
\* and the storage, and head_ptr ends at entry index m - first_run.
C15_CommonPopMulSplit ==
  (variant = "common" /\ Sane) =>
    \A m \in 1..(fifo.max_size - fifo.free_size) : \A junk \in Byte :
      (fifo.head_ptr + m * fifo.entry_size >= fifo.limit_ptr) =>
        LET first_run == (fifo.limit_ptr - fifo.head_ptr) \div fifo.entry_size
            rest == common_pop_mul_rest(fifo, m)
            r == fifo_common_pop_mul(Ptr(fifo), Ptr(Dest(m * fifo.entry_size)),
                                     m, junk)
        IN /\ rest = m - first_run
           /\ 0 <= rest /\ rest < fifo.max_size
           /\ ~r.crash /\ ~r.oob /\ r.ret = 0
           /\ r.fifo[1].head_ptr = (m - first_run) * fifo.entry_size

\* C16: memory safety, all four variants.  No returned call has read or
\* written a byte outside the storage [buffer, buffer + max_size *
\* entry_size), read push_buffer beyond m * entry_size bytes or written
\* pop_buffer beyond m * entry_size bytes.
C16_MemorySafe == ~oob

\* C17: uint8 FIFO.  In every reachable state head_ptr and tail_ptr lie in
\* [buffer, limit_ptr), the distance from the head index to the tail index
\* modulo max_size is the stored count modulo max_size, and head_ptr =
\* tail_ptr exactly when the FIFO is empty (free_size = max_size) or full
\* (free_size = 0).
C17_HeadTailOccupancy ==
  variant = "uint8" =>
    /\ 0 <= fifo.head_ptr /\ fifo.head_ptr < fifo.limit_ptr
    /\ 0 <= fifo.tail_ptr /\ fifo.tail_ptr < fifo.limit_ptr
    /\ (Index(fifo.tail_ptr, fifo) - Index(fifo.head_ptr, fifo)) % fifo.max_size
         = (fifo.max_size - fifo.free_size) % fifo.max_size
    /\ fifo.head_ptr = fifo.tail_ptr
         <=> (fifo.free_size = fifo.max_size \/ fifo.free_size = 0)

\* a full uint8 FIFO of capacity three whose head and tail meet at index 2
C17_Witness ==
  /\ variant = "uint8" /\ fifo.max_size = 3
  /\ fifo.free_size = 0 /\ Len(ref) = 3
  /\ fifo.head_ptr = 2 /\ fifo.tail_ptr = 2
  /\ call.op = "push_mul" /\ call.ret = 0

\* every byte of the max_size entry slots is zero
AllZero(f) == \A i \in 1..f.max_size * f.entry_size : f.buffer[i] = 0

\* C18: zero-fill, all four variants.  From any reachable state a clear
\* returns 0 and leaves every byte of the max_size entry slots zero, and so
\* does an init with clear_flag = true over a block of any contents.
C18_ZeroFill ==
  /\ LET r == Clear(variant, Ptr(fifo)) IN r.ret = 0 /\ AllZero(r.fifo[1])
  /\ \A size \in 1..MaxSize, g \in Byte :
       LET r == FifoInit(variant, Ptr(fifo), Ptr(Fill(size * fifo.entry_size, g)),
                         size, fifo.entry_size, TRUE)
       IN r.ret = 0 /\ AllZero(r.fifo[1])

\* two results agree on success or failure and, when the calls succeeded, on
\* the values delivered, the head and tail entry indexes and free_size
AgreeCall(x, y) ==
  /\ x.crash = y.crash
  /\ x.ret = 0 <=> y.ret = 0
  /\ (x.ret = 0 /\ ~x.crash) =>
       /\ x.out = y.out
       /\ Index(x.fifo[1].head_ptr, x.fifo[1]) = Index(y.fifo[1].head_ptr, y.fifo[1])
       /\ Index(x.fifo[1].tail_ptr, x.fifo[1]) = Index(y.fifo[1].tail_ptr, y.fifo[1])
       /\ x.fifo[1].free_size = y.fifo[1].free_size

\* C19: the variants are one algorithm over different strides.  Right
\* after init, the uint8, uint16 or uint32 FIFO and the common FIFO
\* initialised with entry_size = sizeof(T) over the same storage and
\* capacity agree on the outcome of init and of every next clear, pop,
\* pop_mul, push and push_mul call.
C19_SameAlgorithm ==
  (variant # "common" /\ call.op = "init" /\ call.ret = 0) =>
    LET sz   == fifo.entry_size
        twin == fifo_common_init(Ptr(fifo), Ptr(fifo.buffer), fifo.max_size, sz, FALSE)
        a    == Ptr(fifo)
        b    == twin.fifo
    IN /\ twin.ret = 0
       /\ AgreeCall([ret |-> 0, crash |-> FALSE, out |-> NULL, fifo |-> a], twin)
       /\ AgreeCall(Clear(variant, a), Clear("common", b))
       /\ \A junk \in Byte :
            AgreeCall(Pop(variant, a, Ptr(Dest(sz)), junk),
                      Pop("common", b, Ptr(Dest(sz)), junk))
       /\ \A entry \in PushBuffers(1, sz) :
            AgreeCall(Push(variant, a, entry), Push("common", b, entry))
       /\ \A m \in 0..MaxM : \A data \in PushBuffers(m, sz) : \A junk \in Byte :
            AgreeCall(PushMul(variant, a, Ptr(data), m, junk),
                      PushMul("common", b, Ptr(data), m, junk))
       /\ \A m \in 0..MaxM : \A junk \in Byte :
            AgreeCall(PopMul(variant, a, Ptr(Dest(m * sz)), m, junk),
                      PopMul("common", b, Ptr(Dest(m * sz)), m, junk))

\* C20: frame conditions, all four variants.  A clear, pop, pop_mul, push or
\* push_mul call leaves the storage block, limit_ptr, max_size and
\* entry_size as they were; a push or push_mul leaves head_ptr; a pop or
\* pop_mul leaves tail_ptr and every storage byte; and a successful push or
\* push_mul, called in a state with consistent accounting and pointers
\* inside the storage, leaves every byte of the stored entries.
C20_Frame ==
  [][call'.op \in {"clear"} \cup Pops \cup Pushes =>
       /\ Len(fifo'.buffer) = Len(fifo.buffer)
       /\ fifo'.limit_ptr = fifo.limit_ptr
       /\ fifo'.max_size = fifo.max_size
       /\ fifo'.entry_size = fifo.entry_size
       /\ call'.op \in Pushes => fifo'.head_ptr = fifo.head_ptr
       /\ call'.op \in Pops =>
            fifo'.tail_ptr = fifo.tail_ptr /\ fifo'.buffer = fifo.buffer
       /\ (call'.op \in Pushes /\ call'.ret = 0 /\ Sane) =>
            \A a \in Occupied(fifo) : fifo'.buffer[a + 1] = fifo.buffer[a + 1]]_vars

\* a is an initial part of b
IsPrefix(a, b) == Len(a) <= Len(b) /\ \A i \in 1..Len(a) : a[i] = b[i]

\* no call is in progress
Quiet == prod.pc = "idle" /\ cons.pc = "idle"

\* C21: one context calls fifo_uint8_push and another fifo_uint8_pop,
\* interleaved between any two statements, each statement atomic.  The
\* values the consumer has received are, in order, the first values the
\* producer has stored (none lost, duplicated or read before it was
\* written), and whenever no call is in progress free_size is max_size
\* minus the number of values stored and not yet received.
C21_PushPopInterleaved ==
  /\ IsPrefix(cons.hist, prod.hist)
  /\ Quiet => fifo.free_size = fifo.max_size - (Len(prod.hist) - Len(cons.hist))

\* the third push and the second pop both in progress on a FIFO of two
C21_Witness ==
  /\ fifo.max_size = 2
  /\ prod.op = "push" /\ prod.pc = "advance" /\ Len(prod.hist) = 3
  /\ cons.op = "pop" /\ cons.pc = "advance" /\ Len(cons.hist) = 2
\* C22: the producer uses fifo_uint8_push_mul or fifo_uint8_push and the
\* consumer fifo_uint8_pop_mul or fifo_uint8_pop, interleaved between any
\* two statements.  Every value delivered to the consumer is the value the
\* producer stored at that position of the stream: the values received
\* are, in order, the first values stored.
C22_BulkInterleaved == IsPrefix(cons.hist, prod.hist)
\* C23: with free_size-- and free_size++ each a read followed by a write,
\* one fifo_uint8_push interleaved with one fifo_uint8_pop can lose an
\* update.  After a first push, whenever a second push and a pop have both
\* succeeded and returned, free_size differs from max_size minus the
\* number of stored entries exactly when the two calls read the same
\* value of free_size, and then it is off by one.
C23_LostUpdate ==
  (/\ Quiet
   /\ prod.calls = 2 /\ Len(prod.hist) = 2
   /\ cons.calls = 1 /\ Len(cons.hist) = 1)
  => LET expected == fifo.max_size - 1
     IN /\ (fifo.free_size # expected) <=> (prod.reg = cons.reg)
        /\ fifo.free_size \in {expected - 1, expected, expected + 1}

\* a push and a pop have returned and an update of free_size is lost
C23_Witness ==
  /\ Quiet
  /\ prod.calls = 2 /\ Len(prod.hist) = 2
  /\ cons.calls = 1 /\ Len(cons.hist) = 1
  /\ prod.reg = cons.reg
  /\ fifo.free_size # fifo.max_size - 1
\* the statements a context has executed in its current or last call
Executed(c) == {c.done[i] : i \in DOMAIN c.done}

\* how many times the call executed statement pc
Times(c, pc) == Cardinality({i \in DOMAIN c.done : c.done[i] = pc})

\* One statement of push_mul or pop_mul takes context c to d and the
\* descriptor from f to g, ptr and qtr being the call's pointer (tail_ptr
\* or head_ptr) before and after, copied telling whether the statement
\* copied an element, and sign being -1 for push_mul and 1 for pop_mul.
CommitFirst(c, d, f, g, ptr, qtr, copied, sign) ==
  /\ g.free_size # f.free_size =>
       /\ g.free_size = (f.free_size + sign * c.m) % U16
       /\ c.m * f.entry_size = Len(c.buf)
       /\ ~copied /\ qtr = ptr
       /\ Executed(c) \cap {"copy1", "copy2", "reset", "move"} = {}
  /\ (copied \/ qtr # ptr) => "count" \in Executed(c)
  /\ (d.pc = "idle" /\ d.ret = 0) => Times(d, "count") = 1

\* One statement of push or pop: the element is accessed before free_size
\* changes.
AccessFirst(c, d, f, g, access) ==
  /\ g.free_size # f.free_size => access \in Executed(c)
  /\ d.hist # c.hist => ~("count" \in Executed(c))
  /\ (d.pc = "idle" /\ d.ret = 0) => Times(d, "count") = 1

\* C24: in all four variants a successful push_mul decreases free_size by
\* the caller's m in one step, before any element is stored and before
\* tail_ptr moves; a successful pop_mul increases it by m in one step,
\* before any element is copied out and before head_ptr moves; push and pop
\* store or load the element before free_size changes.
C24_CommitBeforeCopy ==
  [][/\ (prod.op = "push_mul" /\ prod.pc # "idle" /\ prod' # prod) =>
          CommitFirst(prod, prod', fifo, fifo', fifo.tail_ptr, fifo'.tail_ptr,
                      fifo'.buffer # fifo.buffer \/ prod'.hist # prod.hist, -1)
     /\ (cons.op = "pop_mul" /\ cons.pc # "idle" /\ cons' # cons) =>
          CommitFirst(cons, cons', fifo, fifo', fifo.head_ptr, fifo'.head_ptr,
                      cons'.buf # cons.buf \/ cons'.hist # cons.hist, 1)
     /\ (prod.op = "push" /\ prod.pc # "idle" /\ prod' # prod) =>
          AccessFirst(prod, prod', fifo, fifo', "store")
     /\ (cons.op = "pop" /\ cons.pc # "idle" /\ cons' # cons) =>
          AccessFirst(cons, cons', fifo, fifo', "load")]_vars

\* a push_mul that wrapped and a pop_mul that wrapped have both succeeded
\* on a FIFO of wider entries
C24_Witness ==
  /\ variant # "uint8"
  /\ prod.op = "push_mul" /\ prod.pc = "idle" /\ prod.ret = 0
  /\ cons.op = "pop_mul" /\ cons.pc = "idle" /\ cons.ret = 0
  /\ "copy1" \in Executed(prod) /\ "copy1" \in Executed(cons)
  /\ Len(cons.hist) > 0

====
